---- MODULE Spec2Model ----
\* Model of AcyclicDependencyGraph<T> (src/src/lib.rs): a dependency graph
\* kept acyclic at insertion time, its reachability queries and the
\* clone-and-shrink computation of topological layers.
EXTENDS Integers, FiniteSets, Sequences, TLC

\* ---------------------------------------------------------------------------
\* Bounds
\* ---------------------------------------------------------------------------

\* Number of distinct node identities a caller may pass to the graph.
MaxNode == 3

\* The values of the type parameter T.
Node == 1 .. MaxNode

\* Placeholder for an argument an operation does not take: a value outside Node.
NoNode == MaxNode + 1

\* ---------------------------------------------------------------------------
\* State
\* ---------------------------------------------------------------------------

VARIABLES
    nodes,                  \* self.nodes: HashSet<T>
    forward_dependencies,   \* self.forward_dependencies: HashMap<T, HashSet<T>>
    backward_dependencies,  \* self.backward_dependencies: HashMap<T, HashSet<T>>
    shrinking_graph,        \* the clone a layer computation works on
    layers,                 \* the Vec<HashSet<T>> a layer computation builds
    leaves,                 \* the set taken at the top of the current iteration
    pending,                \* elements of `leaves` the for loop has not visited
    pc,                     \* position of the caller
    call,                   \* the last operation called and its arguments
    result,                 \* Result returned by the last depend_on
    out,                    \* HashSet returned by the last set-valued query
    answer,                 \* bool returned by the last depends_on
    old,                    \* the caller's graph when the last operation began
    accepted                \* the edges for which depend_on has returned Ok

vars == <<nodes, forward_dependencies, backward_dependencies, shrinking_graph,
          layers, leaves, pending, pc, call, result, out, answer, old, accepted>>

\* ---------------------------------------------------------------------------
\* Data
\* ---------------------------------------------------------------------------

\* A HashMap<T, HashSet<T>> with no entry.
EmptyMap == [k \in {} |-> {}]

\* AcyclicDependencyGraph::new()
new ==
    [nodes |-> {}, forward_dependencies |-> EmptyMap, backward_dependencies |-> EmptyMap]

\* The caller's graph as one value (what &self denotes, and what clone() copies).
Self ==
    [nodes |-> nodes,
     forward_dependencies |-> forward_dependencies,
     backward_dependencies |-> backward_dependencies]

\* map.remove(k)
map_remove(map, node) == [k \in DOMAIN map \ {node} |-> map[k]]

\* Variant: the entry is replaced instead of extended.
entry_or_insert_overwrite(map, k, v) ==
    [x \in DOMAIN map \cup {k} |-> IF x = k THEN {v} ELSE map[x]]

\* map.entry(k).or_insert(HashSet::new()).insert(v)
entry_or_insert(map, k, v) ==
    [x \in DOMAIN map \cup {k} |->
        IF x = k
        THEN (IF k \in DOMAIN map THEN map[k] ELSE {}) \cup {v}
        ELSE map[x]]

\* Variant: the node's own entry is dropped but it stays in the other sets.
dependency_map_remove_node_unstripped(map, node) ==
    LET removed == map_remove(map, node)
    IN  [k \in {x \in DOMAIN removed : Cardinality(removed[x]) > 0} |-> removed[k]]

\* Variant: entries whose set became empty are kept.
dependency_map_remove_node_unpruned(map, node) ==
    LET removed == map_remove(map, node)
    IN  [k \in DOMAIN removed |-> removed[k] \ {node}]

\* Variant: every entry that mentions the node is dropped whole.
dependency_map_remove_node_drop_entries(map, node) ==
    LET removed == map_remove(map, node)
    IN  [k \in {x \in DOMAIN removed : node \notin removed[x]} |-> removed[k]]

\* fn dependency_map_remove_node(map, node)
dependency_map_remove_node(map, node) ==
    LET removed  == map_remove(map, node)
        stripped == [k \in DOMAIN removed |-> removed[k] \ {node}]
    IN  [k \in {x \in DOMAIN stripped : Cardinality(stripped[x]) > 0} |-> stripped[k]]

\* Variant: the node leaves the node set only; both maps keep it.
remove_node_nodes_only(g, node) ==
    [nodes |-> g.nodes \ {node},
     forward_dependencies |-> g.forward_dependencies,
     backward_dependencies |-> g.backward_dependencies]

\* Variant: the map of dependents is not updated.
remove_node_forward_only(g, node) ==
    [nodes |-> g.nodes \ {node},
     forward_dependencies |-> dependency_map_remove_node(g.forward_dependencies, node),
     backward_dependencies |-> g.backward_dependencies]

\* fn remove_node(&mut self, node), as the graph it leaves behind
remove_node(g, node) ==
    [nodes |-> g.nodes \ {node},
     forward_dependencies |-> dependency_map_remove_node(g.forward_dependencies, node),
     backward_dependencies |-> dependency_map_remove_node(g.backward_dependencies, node)]

\* Variant: the test looks at the map of dependents.
get_leaves_backward(g) == {node \in g.nodes : node \notin DOMAIN g.backward_dependencies}

\* Variant: every known node is reported.
get_leaves_all(g) == g.nodes

\* fn get_leaves(&self)
get_leaves(g) == {node \in g.nodes : node \notin DOMAIN g.forward_dependencies}

\* Variant: the test looks at the map of dependencies.
get_roots_forward(g) == {node \in g.nodes : node \notin DOMAIN g.forward_dependencies}

\* fn get_roots(&self)
get_roots(g) == {node \in g.nodes : node \notin DOMAIN g.backward_dependencies}

\* The while loop shared by the two reachability queries: `discovered` is the
\* frontier, `found` what its direct entries hold, `discoveries` the part of
\* it that out.insert() reported as new.
RECURSIVE discover(_, _, _)
discover(map, acc, discovered) ==
    IF Cardinality(discovered) > 0
    THEN LET found       == UNION {map[n] : n \in discovered \cap DOMAIN map}
             discoveries == found \ acc
         IN  discover(map, acc \cup discoveries, discoveries)
    ELSE acc

\* Variant: the search stops after the first round.
get_forward_dependencies_direct(g, node) ==
    IF node \in DOMAIN g.forward_dependencies THEN g.forward_dependencies[node] ELSE {}

\* Variant: the start node is put in the result set.
get_forward_dependencies_reflexive(g, node) ==
    discover(g.forward_dependencies, {node}, {node})

\* fn get_forward_dependencies(&self, node)
get_forward_dependencies(g, node) == discover(g.forward_dependencies, {}, {node})

\* Variant: the search stops after the first round.
get_backward_dependencies_direct(g, node) ==
    IF node \in DOMAIN g.backward_dependencies THEN g.backward_dependencies[node] ELSE {}

\* fn get_backward_dependencies(&self, node)
get_backward_dependencies(g, node) == discover(g.backward_dependencies, {}, {node})

\* Variant: nothing is ever reported as depended on.
depends_on_never(g, source, target) == FALSE

\* Variant: a dependency in either direction counts.
depends_on_either(g, source, target) ==
    \/ target \in get_forward_dependencies(g, source)
    \/ source \in get_forward_dependencies(g, target)

\* fn depends_on(&self, source, target)
depends_on(g, source, target) == target \in get_forward_dependencies(g, source)

\* Variant: no equality test before the reachability test.
depend_on_result_no_self_check(g, from, to) ==
    IF depends_on(g, to, from) THEN "CircularDependency" ELSE "Ok"

\* Variant: the reachability test has its arguments the other way round.
depend_on_result_swapped(g, from, to) ==
    IF from = to THEN "SelfReference"
    ELSE IF depends_on(g, from, to) THEN "CircularDependency"
    ELSE "Ok"

\* The Result of depend_on(from, to) on graph g.
depend_on_result(g, from, to) ==
    IF from = to THEN "SelfReference"
    ELSE IF depends_on(g, to, from) THEN "CircularDependency"
    ELSE "Ok"

\* Variant: only `from` is recorded in the node set.
depend_on_insert_from_only(g, from, to) ==
    [nodes |-> g.nodes \cup {from},
     forward_dependencies |-> entry_or_insert(g.forward_dependencies, from, to),
     backward_dependencies |-> entry_or_insert(g.backward_dependencies, to, from)]

\* Variant: the node set is rebuilt from the new edge.
depend_on_insert_replacing_nodes(g, from, to) ==
    [nodes |-> {from, to},
     forward_dependencies |-> entry_or_insert(g.forward_dependencies, from, to),
     backward_dependencies |-> entry_or_insert(g.backward_dependencies, to, from)]

\* The mutation depend_on(from, to) performs once both checks have passed.
depend_on_insert(g, from, to) ==
    [nodes |-> (g.nodes \cup {from}) \cup {to},
     forward_dependencies |-> entry_or_insert(g.forward_dependencies, from, to),
     backward_dependencies |-> entry_or_insert(g.backward_dependencies, to, from)]

\* for node in &set { g.remove_node(*node) }, visiting the set in one order
RECURSIVE remove_nodes(_, _)
remove_nodes(g, set) ==
    IF set = {} THEN g
    ELSE LET node == CHOOSE n \in set : TRUE
         IN  remove_nodes(remove_node(g, node), set \ {node})

\* fn get_forward_dependency_topological_layers(&self), as the Vec it returns
\* when started on the clone g
RECURSIVE get_forward_dependency_topological_layers(_)
get_forward_dependency_topological_layers(g) ==
    LET taken == get_leaves(g)
    IN  IF Cardinality(taken) = 0 THEN <<>>
        ELSE <<taken>> \o get_forward_dependency_topological_layers(remove_nodes(g, taken))

\* fn get_backward_dependency_topological_layers(&self), as the Vec it returns
\* when started on the clone g
RECURSIVE get_backward_dependency_topological_layers(_)
get_backward_dependency_topological_layers(g) ==
    LET taken == get_roots(g)
    IN  IF Cardinality(taken) = 0 THEN <<>>
        ELSE <<taken>> \o get_backward_dependency_topological_layers(remove_nodes(g, taken))

\* ---------------------------------------------------------------------------
\* Operations
\* ---------------------------------------------------------------------------

Call(op, a, b) == [op |-> op, from |-> a, to |-> b]

Init ==
    /\ nodes = new.nodes
    /\ forward_dependencies = new.forward_dependencies
    /\ backward_dependencies = new.backward_dependencies
    /\ shrinking_graph = new
    /\ layers = <<>>
    /\ leaves = {}
    /\ pending = {}
    /\ pc = "idle"
    /\ call = Call("new", NoNode, NoNode)
    /\ result = "None"
    /\ out = {}
    /\ answer = FALSE
    /\ old = new
    /\ accepted = {}

\* An operation that computes no layers: the previous call's Vec is gone.
NoLayering ==
    /\ layers' = <<>>
    /\ UNCHANGED <<shrinking_graph, leaves, pending, pc>>
SameGraph == UNCHANGED <<nodes, forward_dependencies, backward_dependencies>>

\* pub fn depend_on(&mut self, from, to)
depend_on(from, to) ==
    /\ pc = "idle"
    /\ call' = Call("depend_on", from, to)
    /\ old' = Self
    /\ result' = depend_on_result(Self, from, to)
    /\ IF result' = "Ok"
       THEN LET g == depend_on_insert(Self, from, to)
            IN  /\ nodes' = g.nodes
                /\ forward_dependencies' = g.forward_dependencies
                /\ backward_dependencies' = g.backward_dependencies
       ELSE SameGraph
    /\ accepted' = IF result' = "Ok" THEN accepted \cup {<<from, to>>} ELSE accepted
    /\ out' = {}
    /\ answer' = FALSE
    /\ NoLayering

\* pub fn depends_on(&self, source, target), called by the user
query_depends_on(source, target) ==
    /\ pc = "idle"
    /\ call' = Call("depends_on", source, target)
    /\ old' = Self
    /\ answer' = depends_on(Self, source, target)
    /\ result' = "None"
    /\ out' = {}
    /\ SameGraph
    /\ NoLayering
    /\ UNCHANGED accepted

\* Variant: the queried node is entered into the node set.
SetQuery_registering(op, node, value) ==
    /\ pc = "idle"
    /\ call' = Call(op, node, NoNode)
    /\ old' = Self
    /\ out' = value
    /\ result' = "None"
    /\ answer' = FALSE
    /\ nodes' = nodes \cup ({node} \cap Node)
    /\ UNCHANGED <<forward_dependencies, backward_dependencies>>
    /\ NoLayering
    /\ UNCHANGED accepted

\* A set-valued query on &self
SetQuery(op, node, value) ==
    /\ pc = "idle"
    /\ call' = Call(op, node, NoNode)
    /\ old' = Self
    /\ out' = value
    /\ result' = "None"
    /\ answer' = FALSE
    /\ SameGraph
    /\ NoLayering
    /\ UNCHANGED accepted

query_get_forward_dependencies(node) ==
    SetQuery("get_forward_dependencies", node, get_forward_dependencies(Self, node))

query_get_backward_dependencies(node) ==
    SetQuery("get_backward_dependencies", node, get_backward_dependencies(Self, node))

query_get_leaves == SetQuery("get_leaves", NoNode, get_leaves(Self))

query_get_roots == SetQuery("get_roots", NoNode, get_roots(Self))

\* Entry of a layer computation: `layers` is created and self is cloned.
LayersBegin(op, start) ==
    /\ pc = "idle"
    /\ call' = Call(op, NoNode, NoNode)
    /\ old' = Self
    /\ shrinking_graph' = Self
    /\ layers' = <<>>
    /\ leaves' = {}
    /\ pending' = {}
    /\ pc' = start
    /\ result' = "None"
    /\ out' = {}
    /\ answer' = FALSE
    /\ SameGraph
    /\ UNCHANGED accepted

\* Top of the loop: take the leaves (roots) of the clone; break when none.
LayersLoop(top, body, taken) ==
    /\ pc = top
    /\ leaves' = taken
    /\ IF Cardinality(taken) = 0
       THEN /\ pc' = "idle"
            /\ pending' = {}
            /\ shrinking_graph' = new
       ELSE /\ pc' = body
            /\ pending' = taken
            /\ UNCHANGED shrinking_graph
    /\ UNCHANGED <<layers, call, result, out, answer, old, accepted>>
    /\ SameGraph

\* Variant: the loop works on self, no clone is taken.
LayersRemove_in_place(top, body) ==
    /\ pc = body
    /\ \E node \in pending :
          LET g == remove_node(Self, node)
          IN  /\ nodes' = g.nodes
              /\ forward_dependencies' = g.forward_dependencies
              /\ backward_dependencies' = g.backward_dependencies
              /\ shrinking_graph' = g
              /\ pending' = pending \ {node}
              /\ IF pending' = {}
                 THEN /\ layers' = Append(layers, leaves)
                      /\ pc' = top
                 ELSE UNCHANGED <<layers, pc>>
    /\ UNCHANGED <<leaves, call, result, out, answer, old, accepted>>

\* One iteration of the for loop: remove_node on the clone; after the last
\* one the set is pushed onto `layers`.
LayersRemove(top, body) ==
    /\ pc = body
    /\ \E node \in pending :
          /\ shrinking_graph' = remove_node(shrinking_graph, node)
          /\ pending' = pending \ {node}
          /\ IF pending' = {}
             THEN /\ layers' = Append(layers, leaves)
                  /\ pc' = top
             ELSE UNCHANGED <<layers, pc>>
    /\ UNCHANGED <<leaves, call, result, out, answer, old, accepted>>
    /\ SameGraph

forward_layers_begin ==
    LayersBegin("get_forward_dependency_topological_layers", "forward_loop")

forward_layers_loop ==
    LayersLoop("forward_loop", "forward_remove", get_leaves(shrinking_graph))

forward_layers_remove == LayersRemove("forward_loop", "forward_remove")

backward_layers_begin ==
    LayersBegin("get_backward_dependency_topological_layers", "backward_loop")

backward_layers_loop ==
    LayersLoop("backward_loop", "backward_remove", get_roots(shrinking_graph))

backward_layers_remove == LayersRemove("backward_loop", "backward_remove")

Next ==
    \/ \E from \in Node, to \in Node : depend_on(from, to)
    \/ \E source \in Node, target \in Node : query_depends_on(source, target)
    \/ \E node \in Node : query_get_forward_dependencies(node)
    \/ \E node \in Node : query_get_backward_dependencies(node)
    \/ query_get_leaves
    \/ query_get_roots
    \/ forward_layers_begin
    \/ forward_layers_loop
    \/ forward_layers_remove
    \/ backward_layers_begin
    \/ backward_layers_loop
    \/ backward_layers_remove

Spec == Init /\ [][Next]_vars

\* A call runs to its return: the loop head and the loop body of a layer
\* computation are taken whenever the caller stands in front of them.
FairSpec ==
    /\ Spec
    /\ WF_vars(forward_layers_loop)
    /\ WF_vars(forward_layers_remove)
    /\ WF_vars(backward_layers_loop)
    /\ WF_vars(backward_layers_remove)

\* ---------------------------------------------------------------------------
\* Reference notions the properties are stated with
\* ---------------------------------------------------------------------------

\* The set stored under k, an absent key counting as the empty set.
Get(map, k) == IF k \in DOMAIN map THEN map[k] ELSE {}

\* The stored edges of an adjacency map, as a relation.
Edges(map) == {e \in Node \X Node : e[2] \in Get(map, e[1])}

\* Transitive closure of a relation on Node, by squaring up to the fixpoint.
RECURSIVE TransitiveClosure(_)
TransitiveClosure(R) ==
    LET S == R \cup {e \in Node \X Node :
                        \E b \in Node : <<e[1], b>> \in R /\ <<b, e[2]>> \in R}
    IN  IF S = R THEN R ELSE TransitiveClosure(S)

\* All pairs <<a, b>> with a path of one or more edges of `map` from a to b.
Paths(map) == TransitiveClosure(Edges(map))

Acyclic(R) == \A n \in Node : <<n, n>> \notin TransitiveClosure(R)

IsDependOn == call.op = "depend_on"

Layering == pc # "idle"

\* ---------------------------------------------------------------------------
\* Properties
\* ---------------------------------------------------------------------------

\* C1: the graph given by forward_dependencies never has a cycle of any
\* length, self-loops included: no node reaches itself along forward edges.
C1_Acyclicity == Acyclic(Edges(forward_dependencies))

\* A cycle-closing call was rejected on a graph that holds a two-edge path.
C1_Witness ==
    /\ IsDependOn
    /\ result = "CircularDependency"
    /\ \E a \in Node, b \in Node, c \in Node :
          /\ b \in Get(forward_dependencies, a)
          /\ c \in Get(forward_dependencies, b)
          /\ call.from = c /\ call.to = a

\* C2: depend_on(a, a) returns SelfReference and leaves nodes and both maps
\* as they were, whether or not a is known to the graph.
C2_SelfReference ==
    (IsDependOn /\ call.from = call.to) =>
        /\ result = "SelfReference"
        /\ Self = old

\* depend_on(a, a) was called on a non-empty graph that does not know a.
C2_Witness ==
    /\ IsDependOn
    /\ call.from = call.to
    /\ call.from \notin nodes
    /\ nodes # {}

\* C3: if from # to and `to` reaches `from` along forward edges, then
\* depend_on(from, to) returns CircularDependency and the state is unchanged.
C3_CircularRejected ==
    (IsDependOn /\ call.from # call.to
        /\ <<call.to, call.from>> \in Paths(old.forward_dependencies)) =>
        /\ result = "CircularDependency"
        /\ Self = old

\* The rejected edge would have closed a cycle longer than two edges.
C3_Witness ==
    /\ IsDependOn
    /\ call.from # call.to
    /\ <<call.to, call.from>> \in Paths(old.forward_dependencies)
    /\ call.from \notin Get(old.forward_dependencies, call.to)

\* C4: depend_on(from, to) returns Ok exactly when from # to and `to` does not
\* reach `from` in the state before the call; for from # to it returns
\* CircularDependency exactly when the edge would create a cycle, and an edge
\* that leaves the graph acyclic is never rejected.
C4_ExactRejection ==
    IsDependOn =>
        LET before == Edges(old.forward_dependencies)
            with   == before \cup {<<call.from, call.to>>}
        IN  /\ (result = "Ok") <=>
                   (call.from # call.to
                    /\ <<call.to, call.from>> \notin TransitiveClosure(before))
            /\ (call.from # call.to) =>
                   ((result = "CircularDependency") <=> ~Acyclic(with))
            /\ Acyclic(with) => result = "Ok"
            /\ result \in {"Ok", "SelfReference", "CircularDependency"}

\* An edge between two nodes already connected by a longer path, in the
\* direction of that path, was accepted.
C4_Witness ==
    /\ IsDependOn
    /\ result = "Ok"
    /\ <<call.from, call.to>> \in Paths(old.forward_dependencies)
    /\ call.to \notin Get(old.forward_dependencies, call.from)

\* C5: when depend_on(from, to) returns Ok, nodes gains exactly from and to,
\* forward_dependencies[from] gains exactly to, backward_dependencies[to]
\* gains exactly from, and every other key of both maps is unchanged;
\* re-inserting a stored edge returns Ok and changes nothing.
C5_InsertFrame ==
    IsDependOn =>
        /\ (result = "Ok") =>
              /\ nodes = old.nodes \cup {call.from, call.to}
              /\ DOMAIN forward_dependencies =
                     DOMAIN old.forward_dependencies \cup {call.from}
              /\ DOMAIN backward_dependencies =
                     DOMAIN old.backward_dependencies \cup {call.to}
              /\ \A k \in Node :
                    /\ Get(forward_dependencies, k) =
                          IF k = call.from
                          THEN Get(old.forward_dependencies, k) \cup {call.to}
                          ELSE Get(old.forward_dependencies, k)
                    /\ Get(backward_dependencies, k) =
                          IF k = call.to
                          THEN Get(old.backward_dependencies, k) \cup {call.from}
                          ELSE Get(old.backward_dependencies, k)
        /\ (call.to \in Get(old.forward_dependencies, call.from)) =>
              /\ result = "Ok"
              /\ Self = old

\* An accepted call added a second dependency to a node that had one, while
\* another node keeps an entry of its own.
C5_Witness ==
    /\ IsDependOn
    /\ result = "Ok"
    /\ call.from \in DOMAIN old.forward_dependencies
    /\ call.to \notin old.forward_dependencies[call.from]
    /\ DOMAIN old.forward_dependencies # {call.from}

Symmetric(g) ==
    \A x \in Node, y \in Node :
        (y \in Get(g.forward_dependencies, x)) <=> (x \in Get(g.backward_dependencies, y))

\* C6: in the caller's graph and in the working copy of a layer computation
\* after each remove_node, y is in forward_dependencies[x] exactly when x is
\* in backward_dependencies[y].
C6_Symmetry == Symmetric(Self) /\ Symmetric(shrinking_graph)

\* A layer computation has removed a node from its working copy and edges
\* remain in it.
C6_Witness ==
    /\ Layering
    /\ shrinking_graph.nodes # old.nodes
    /\ shrinking_graph.forward_dependencies # EmptyMap

Mentioned(map) == DOMAIN map \cup UNION {map[k] : k \in DOMAIN map}

\* C7: nodes is exactly the set of nodes that occur as a key or inside a
\* value set of forward_dependencies or backward_dependencies.
C7_NodeSetClosure ==
    nodes = Mentioned(forward_dependencies) \cup Mentioned(backward_dependencies)

\* An accepted call introduced its `to` node into a graph that already had
\* nodes.
C7_Witness ==
    /\ IsDependOn
    /\ result = "Ok"
    /\ call.to \notin old.nodes
    /\ call.from \in old.nodes

NoEmptyEntry(map) == \A k \in DOMAIN map : map[k] # {}

\* What a map has to be once the nodes outside `kept` have been removed.
Restricted(map, kept, k) == IF k \in kept THEN Get(map, k) \cap kept ELSE {}

\* C8: no key of forward_dependencies or backward_dependencies is mapped to
\* an empty set, in the caller's graph and in the working copy after every
\* remove_node; in the working copy a node has a key exactly when one of its
\* direct dependencies (dependents) is still there.
C8_NoEmptyEntry ==
    /\ NoEmptyEntry(forward_dependencies)
    /\ NoEmptyEntry(backward_dependencies)
    /\ NoEmptyEntry(shrinking_graph.forward_dependencies)
    /\ NoEmptyEntry(shrinking_graph.backward_dependencies)
    /\ Layering =>
          \A k \in Node :
             /\ Get(shrinking_graph.forward_dependencies, k) =
                   Restricted(old.forward_dependencies, shrinking_graph.nodes, k)
             /\ Get(shrinking_graph.backward_dependencies, k) =
                   Restricted(old.backward_dependencies, shrinking_graph.nodes, k)
             /\ (k \in DOMAIN shrinking_graph.forward_dependencies) <=>
                   (Restricted(old.forward_dependencies, shrinking_graph.nodes, k) # {})

\* A node still in the working copy lost its last direct dependency to
\* remove_node and has no key any more.
C8_Witness ==
    /\ Layering
    /\ \E k \in shrinking_graph.nodes :
          /\ k \in DOMAIN old.forward_dependencies
          /\ k \notin DOMAIN shrinking_graph.forward_dependencies

\* C9: get_forward_dependencies(x) is the set of nodes reachable from x by
\* one or more forward edges; x is never in it and no member of it has a
\* forward path back to x.
C9_ForwardClosure ==
    LET paths == Paths(forward_dependencies)
    IN  /\ \A x \in Node :
              LET deps == get_forward_dependencies(Self, x)
              IN  /\ deps = {y \in Node : <<x, y>> \in paths}
                  /\ x \notin deps
                  /\ \A y \in deps : <<y, x>> \notin paths
        /\ (call.op = "get_forward_dependencies") =>
              out = {y \in Node : <<call.from, y>> \in paths}

\* The query returned a node that is not a direct dependency.
C9_Witness ==
    /\ call.op = "get_forward_dependencies"
    /\ \E y \in out : y \notin Get(forward_dependencies, call.from)

\* C10: y is in get_backward_dependencies(x) exactly when x is in
\* get_forward_dependencies(y), exactly when depends_on(y, x);
\* get_backward_dependencies(x) is the set of nodes with a forward path to x.
C10_Converse ==
    LET paths == Paths(forward_dependencies)
    IN  /\ \A x \in Node :
              LET dependents == get_backward_dependencies(Self, x)
              IN  /\ dependents = {y \in Node : <<y, x>> \in paths}
                  /\ \A y \in Node :
                        /\ (y \in dependents) <=> (x \in get_forward_dependencies(Self, y))
                        /\ (y \in dependents) <=> depends_on(Self, y, x)
        /\ (call.op = "get_backward_dependencies") =>
              out = {y \in Node : <<y, call.from>> \in paths}
        /\ (call.op = "depends_on") =>
              (answer <=> call.from \in get_backward_dependencies(Self, call.to))

\* The query returned a node that is not a direct dependent.
C10_Witness ==
    /\ call.op = "get_backward_dependencies"
    /\ \E y \in out : y \notin Get(backward_dependencies, call.from)

\* C11: get_leaves() is exactly the set of known nodes with no outgoing
\* forward edge and get_roots() exactly the set of known nodes with no
\* incoming forward edge; both are subsets of nodes.
C11_LeavesAndRoots ==
    LET edges    == Edges(forward_dependencies)
        sources  == {e[1] : e \in edges}
        targets  == {e[2] : e \in edges}
    IN  /\ get_leaves(Self) = nodes \ sources
        /\ get_roots(Self) = nodes \ targets
        /\ get_leaves(Self) \subseteq nodes
        /\ get_roots(Self) \subseteq nodes
        /\ (call.op = "get_leaves") => out = nodes \ sources
        /\ (call.op = "get_roots") => out = nodes \ targets

\* get_leaves() returned some of the known nodes, not all, and one node is
\* neither a leaf nor a root.
C11_Witness ==
    /\ call.op = "get_leaves"
    /\ out # {}
    /\ \E n \in nodes : n \notin out /\ n \notin get_roots(Self)

\* The last call was the given layer computation and it has returned.
Returned(op) == call.op = op /\ pc = "idle"

ForwardReturned == Returned("get_forward_dependency_topological_layers")

BackwardReturned == Returned("get_backward_dependency_topological_layers")

\* The positions of `layers` that hold node n.
LayersOf(n) == {i \in DOMAIN layers : n \in layers[i]}

\* C12: the result of get_forward_dependency_topological_layers() is a valid
\* topological layering: for every stored edge from -> to, the layer of `to`
\* comes strictly before the layer of `from`; hence every node of a layer
\* depends, directly or transitively, only on nodes of earlier layers.
C12_ForwardLayersOrdered ==
    ForwardReturned =>
        /\ \A e \in Edges(forward_dependencies) :
              /\ LayersOf(e[1]) # {}
              /\ LayersOf(e[2]) # {}
              /\ \A i \in LayersOf(e[1]), j \in LayersOf(e[2]) : j < i
        /\ \A k \in DOMAIN layers : \A n \in layers[k] :
              \A d \in get_forward_dependencies(Self, n) :
                  \E i \in 1 .. (k - 1) : d \in layers[i]

\* The computation returned three or more layers.
C12_Witness ==
    /\ ForwardReturned
    /\ Len(layers) >= 3

\* While the working copy has nodes it has a leaf (a root, in the backward
\* computation); the returned layers are non-empty, pairwise disjoint and
\* cover exactly the node set.
C13_Partition ==
    /\ (pc = "forward_loop" /\ shrinking_graph.nodes # {}) =>
          get_leaves(shrinking_graph) # {}
    /\ (pc = "backward_loop" /\ shrinking_graph.nodes # {}) =>
          get_roots(shrinking_graph) # {}
    /\ (ForwardReturned \/ BackwardReturned) =>
          /\ \A i \in DOMAIN layers : layers[i] # {}
          /\ \A i \in DOMAIN layers, j \in DOMAIN layers :
                (i # j) => (layers[i] \cap layers[j] = {})
          /\ UNION {layers[i] : i \in DOMAIN layers} = nodes
          /\ \A n \in nodes : Cardinality(LayersOf(n)) = 1
          /\ (nodes = {}) => (layers = <<>>)

\* Every remove_node takes a node out of the working copy, and the loop is
\* left only with an empty working copy.
C13_Shrinks ==
    /\ (pc \in {"forward_remove", "backward_remove"}) =>
          /\ shrinking_graph'.nodes \subseteq shrinking_graph.nodes
          /\ shrinking_graph'.nodes # shrinking_graph.nodes
    /\ (Layering /\ pc' = "idle") => (shrinking_graph.nodes = {})

\* C13: the layer-computation loops terminate: the working copy has a leaf
\* (root) while it has nodes, it strictly shrinks, it is empty when the loop
\* exits, and the returned layers are non-empty, pairwise disjoint and have
\* exactly `nodes` as their union (the empty sequence for the empty graph).
C13_LayersTerminate ==
    /\ []C13_Partition
    /\ [][C13_Shrinks]_vars
    /\ (Layering ~> ~Layering)

\* A computation returned two or more layers, one of them with two nodes.
C13_Witness ==
    /\ BackwardReturned
    /\ Len(layers) >= 2
    /\ \E i \in DOMAIN layers : Cardinality(layers[i]) >= 2

\* C14: get_backward_dependency_topological_layers() is the mirror layering:
\* its first layer is get_roots(), and for every stored edge from -> to the
\* layer of `from` comes strictly before the layer of `to`, so each node is
\* depended upon only by nodes of earlier layers.
C14_BackwardLayersOrdered ==
    BackwardReturned =>
        /\ (nodes # {}) => (Len(layers) >= 1 /\ layers[1] = get_roots(Self))
        /\ (nodes = {}) => (layers = <<>>)
        /\ \A e \in Edges(forward_dependencies) :
              /\ LayersOf(e[1]) # {}
              /\ LayersOf(e[2]) # {}
              /\ \A i \in LayersOf(e[1]), j \in LayersOf(e[2]) : i < j
        /\ \A k \in DOMAIN layers : \A n \in layers[k] :
              \A d \in get_backward_dependencies(Self, n) :
                  \E i \in 1 .. (k - 1) : d \in layers[i]

\* The backward computation returned three or more layers.
C14_Witness ==
    /\ BackwardReturned
    /\ Len(layers) >= 3

\* C15: every query leaves the caller's nodes, forward_dependencies and
\* backward_dependencies unchanged (the removals of a layer computation act
\* on the clone only), so the same query asked again of the graph it left
\* behind returns the result it has just returned.
C15_QueriesPure ==
    /\ (call.op \notin {"new", "depend_on"}) => (Self = old)
    /\ (call.op = "depends_on") =>
          (answer = depends_on(Self, call.from, call.to))
    /\ (call.op = "get_forward_dependencies") =>
          (out = get_forward_dependencies(Self, call.from))
    /\ (call.op = "get_backward_dependencies") =>
          (out = get_backward_dependencies(Self, call.from))
    /\ (call.op = "get_leaves") => (out = get_leaves(Self))
    /\ (call.op = "get_roots") => (out = get_roots(Self))
    /\ ForwardReturned =>
          (layers = get_forward_dependency_topological_layers(Self))
    /\ BackwardReturned =>
          (layers = get_backward_dependency_topological_layers(Self))

\* A forward layer computation has removed nodes from its clone, in an order
\* it had a choice about, and the caller's graph still has its edges.
C15_Witness ==
    /\ ForwardReturned
    /\ Len(layers) >= 2
    /\ \E i \in DOMAIN layers : Cardinality(layers[i]) >= 2
    /\ forward_dependencies # EmptyMap

\* C16: for a node n that is not in `nodes`, get_forward_dependencies(n) and
\* get_backward_dependencies(n) are empty, depends_on(n, x) and
\* depends_on(x, n) are false for every x, and n is still not in `nodes`
\* after the query; get_forward_dependencies(n) is also empty for a known
\* node that is not a key of forward_dependencies.
C16_UnknownNodes ==
    /\ \A n \in Node \ nodes :
          /\ get_forward_dependencies(Self, n) = {}
          /\ get_backward_dependencies(Self, n) = {}
          /\ \A x \in Node : ~depends_on(Self, n, x) /\ ~depends_on(Self, x, n)
    /\ \A n \in nodes \ DOMAIN forward_dependencies :
          get_forward_dependencies(Self, n) = {}
    /\ (call.op \in {"get_forward_dependencies", "get_backward_dependencies"}
            /\ call.from \notin old.nodes) =>
          (out = {} /\ call.from \notin nodes)
    /\ (call.op = "get_forward_dependencies"
            /\ call.from \notin DOMAIN old.forward_dependencies) =>
          (out = {})
    /\ (call.op = "depends_on"
            /\ (call.from \notin old.nodes \/ call.to \notin old.nodes)) =>
          (~answer /\ nodes = old.nodes)

\* get_backward_dependencies was asked about a node a non-empty graph does
\* not know.
C16_Witness ==
    /\ call.op = "get_backward_dependencies"
    /\ call.from \notin nodes
    /\ nodes # {}

\* The caller's graph after the step.
SelfNext ==
    [nodes |-> nodes',
     forward_dependencies |-> forward_dependencies',
     backward_dependencies |-> backward_dependencies']

\* One step keeps every node, every stored edge and every dependency, and a
\* depend_on against an existing dependency is rejected.
C17_Step ==
    /\ nodes \subseteq nodes'
    /\ Edges(forward_dependencies) \subseteq Edges(forward_dependencies')
    /\ Edges(backward_dependencies) \subseteq Edges(backward_dependencies')
    /\ \A x \in Node, y \in Node :
          depends_on(Self, x, y) => depends_on(SelfNext, x, y)
    /\ (call'.op = "depend_on" /\ depends_on(Self, call'.to, call'.from)) =>
          (result' = "CircularDependency")

\* C17: the graph is append-only over every sequence of public operations:
\* each step's node set and stored edge set contain those before it, so
\* once depends_on(x, y) is true it stays true and every later
\* depend_on(y, x) is rejected with CircularDependency.
C17_AppendOnly == [][C17_Step]_vars

\* depend_on(y, x) was rejected while x depends directly on y, in a graph
\* that has grown to three nodes.
C17_Witness ==
    /\ IsDependOn
    /\ result = "CircularDependency"
    /\ call.from \in Get(forward_dependencies, call.to)
    /\ Cardinality(nodes) >= 3

\* Every node of the last returned layer has every other node of the graph
\* among its transitive dependencies.
LastLayerDependsOnAll ==
    /\ Len(layers) >= 1
    /\ \A n \in layers[Len(layers)] :
          (nodes \ {n}) \subseteq get_forward_dependencies(Self, n)

Max(S) == CHOOSE m \in S : \A x \in S : x <= m

\* Number of edges of the longest path of `map` that starts at n, paths
\* being followed for at most `fuel` edges.
RECURSIVE LongestPath(_, _, _)
LongestPath(map, n, fuel) ==
    IF fuel = 0 \/ Get(map, n) = {} THEN 0
    ELSE 1 + Max({LongestPath(map, d, fuel - 1) : d \in Get(map, n)})

\* The nodes not in the first k - 1 layers.
Remaining(k) == nodes \ UNION {layers[i] : i \in 1 .. (k - 1)}

\* C19: the forward layering is the earliest one: layer 0 is get_leaves() of
\* the caller's graph, a node with direct dependencies lies one layer after
\* the latest of them, which is the length of its longest forward path to a
\* leaf; a node of a layer k >= 1 has a direct dependency in layer k - 1, and
\* layer k is the set of leaves of the graph without layers 0 .. k - 1.
C19_EarliestLayer ==
    ForwardReturned =>
        /\ (nodes # {}) => (Len(layers) >= 1 /\ layers[1] = get_leaves(Self))
        /\ \A n \in nodes :
              /\ LayersOf(n) =
                    {1 + LongestPath(forward_dependencies, n, Cardinality(Node))}
              /\ (Get(forward_dependencies, n) # {}) =>
                    LayersOf(n) =
                       {1 + Max(UNION {LayersOf(d) : d \in Get(forward_dependencies, n)})}
        /\ \A k \in DOMAIN layers : \A n \in layers[k] :
              (k >= 2) => \E d \in Get(forward_dependencies, n) : d \in layers[k - 1]
        /\ \A k \in DOMAIN layers :
              layers[k] = {n \in Remaining(k) :
                              Get(forward_dependencies, n) \cap Remaining(k) = {}}

\* A node has two direct dependencies that lie in different layers.
C19_Witness ==
    /\ ForwardReturned
    /\ \E n \in nodes :
          \E d1 \in Get(forward_dependencies, n), d2 \in Get(forward_dependencies, n) :
              LayersOf(d1) # LayersOf(d2)

\* The graph value that stores exactly the edges E: their end points as
\* nodes, one forward entry per source and one backward entry per target.
GraphOf(E) ==
    [nodes |-> {e[1] : e \in E} \cup {e[2] : e \in E},
     forward_dependencies |->
        [k \in {e[1] : e \in E} |-> {e[2] : e \in {x \in E : x[1] = k}}],
     backward_dependencies |->
        [k \in {e[2] : e \in E} |-> {e[1] : e \in {x \in E : x[2] = k}}]]

\* C20: insertion order does not matter: an edge with from # to that keeps
\* the set of accepted edges acyclic is accepted whatever was inserted
\* before it, and the state is a function of the set of accepted edges only,
\* so the layerings of two orders of the same edge set agree.
C20_OrderIndependent ==
    /\ Self = GraphOf(accepted)
    /\ (IsDependOn /\ call.from # call.to
            /\ Acyclic(accepted \cup {<<call.from, call.to>>})) =>
          (result = "Ok" /\ <<call.from, call.to>> \in accepted)
    /\ ForwardReturned =>
          (layers = get_forward_dependency_topological_layers(GraphOf(accepted)))
    /\ BackwardReturned =>
          (layers = get_backward_dependency_topological_layers(GraphOf(accepted)))

\* The third edge of an acyclic set was accepted last although it lies
\* between two edges inserted before it.
C20_Witness ==
    /\ IsDependOn
    /\ result = "Ok"
    /\ Cardinality(accepted) >= 3
    /\ <<call.from, call.to>> \notin Edges(old.forward_dependencies)
    /\ call.from \in DOMAIN old.forward_dependencies
    /\ call.to \in DOMAIN old.forward_dependencies

====
